---- MODULE Spec2Model ----
(***************************************************************************)
(* Model of projeto.py: a Dash application with one dcc.Store and three    *)
(* callbacks.                                                              *)
(*   update_data_store               (ingestion: upload or URL)            *)
(*   update_dropdowns_and_visibility (schema projection)                   *)
(*   update_graph                    (chart dispatch)                      *)
(* The callbacks are pure functions of their arguments and are modelled as *)
(* operators; the session is the component properties they read and write  *)
(* (store data, status children, container style, dropdown options and     *)
(* values, figure) plus the set of callbacks whose inputs have changed and *)
(* that have not run yet.                                                  *)
(*                                                                         *)
(* Representation of Python values:                                        *)
(*   None as a scalar (column name, chart type, url)  -> the string None   *)
(*   a str used for substring tests (filename)        -> sequence of chars *)
(*   a DataFrame                                      -> DataFrame(c, n)   *)
(*   df = None / a parser that raised                 -> NoneDf / ErrorDf  *)
(*   the JSON text in the store                       -> Json record       *)
(*   a callback that raised                           -> raised |-> TRUE   *)
(***************************************************************************)
EXTENDS Integers, Sequences, FiniteSets, TLC

\* ------------------------------------------------------------------ bounds
MaxNameLen == 3      \* longest filename drawn for parse_contents alone
MaxCols == 2         \* most columns of a drawn DataFrame
MaxRows == 1         \* most rows of a drawn DataFrame
MaxInFlight == 1     \* most runs of update_data_store waiting on a link at once

\* ------------------------------------------------------------ Python values
None == "None"
EmptyStr == ""

Truthy(v) == v # None /\ v # EmptyStr

\* `sub in s` on str: s holds sub as a contiguous run, compared char by char
\* (no case folding).
Contains(sub, s) ==
    \E i \in 1..(Len(s) - Len(sub) + 1) : SubSeq(s, i, i + Len(sub) - 1) = sub

csv == <<"c", "s", "v">>
xls == <<"x", "l", "s">>

\* str.lower() over the characters the model draws.
LowerChar(ch) ==
    CASE ch = "C" -> "c"
      [] ch = "S" -> "s"
      [] ch = "V" -> "v"
      [] ch = "X" -> "x"
      [] ch = "L" -> "l"
      [] OTHER -> ch

Lower(s) == [i \in 1..Len(s) |-> LowerChar(s[i])]

\* ------------------------------------------------------------- DataFrames
ColNames == {"a", "b", "c"}

DataFrame(cols, n) == [tag |-> "df", columns |-> cols, nrows |-> n]
NoneDf == [tag |-> "None", columns |-> <<>>, nrows |-> 0]
ErrorDf == [tag |-> "raise", columns |-> <<>>, nrows |-> 0]

\* Sequences of distinct column names (pandas de-duplicates header names).
ColumnLists ==
    UNION {{s \in [1..k -> ColNames] : \A i, j \in 1..k : i # j => s[i] # s[j]} :
           k \in 0..MaxCols}

DataFrames == {DataFrame(c, n) : c \in ColumnLists, n \in 0..MaxRows}

\* df.to_json(date_format='iso', orient='split'): the columns, the index
\* labels and the data, as one JSON text.
to_json(df) ==
    [tag |-> "json", columns |-> df.columns, index |-> [i \in 1..df.nrows |-> i - 1]]

NoneJson == [tag |-> "None", columns |-> <<>>, index |-> <<>>]

\* pd.read_json(text, orient='split')
read_json(j) == DataFrame(j.columns, Len(j.index))

Snapshots == {to_json(df) : df \in DataFrames}

\* --------------------------------------------------------------- messages
\* An f-string is its template plus the value interpolated into it.
Message(text, arg) == [text |-> text, arg |-> arg]

NoMessage == Message(EmptyStr, <<>>)
MsgUnsupported(filename) == Message("Tipo de arquivo '{filename}' nao suportado.", filename)
MsgLoaded(filename) == Message("Arquivo '{filename}' carregado com sucesso!", filename)
MsgParseError == Message("Ocorreu um erro ao processar o arquivo.", <<>>)
MsgLinkLoaded == Message("Dados carregados com sucesso do link!", <<>>)
MsgLinkError(e) == Message("Erro ao carregar do link: {e}", <<e>>)

\* html.P(status_message, style={'color': color})
P(message, color) == [message |-> message, color |-> color]

NoChildren == P(Message(None, <<>>), None)

\* ------------------------------------------------------- upload contents
\* What the bytes of an upload yield under each parser: the DataFrame, or
\* ErrorDf when the parser (or the utf-8 decoding before it) raises.
Payload(asCsv, asExcel) == [read_csv |-> asCsv, read_excel |-> asExcel]

Payloads ==
    {Payload(df, ErrorDf) : df \in DataFrames}
        \cup {Payload(ErrorDf, df) : df \in DataFrames}
        \cup {Payload(ErrorDf, ErrorDf)}

\* The `contents` property of dcc.Upload: a string with `commas` commas; b64ok
\* says whether base64.b64decode accepts the part after the comma (it raises on
\* incorrect padding), and `decoded` is what that part decodes to.
Contents(commas, b64ok, decoded) ==
    [tag |-> "str", commas |-> commas, b64ok |-> b64ok, decoded |-> decoded]

NoneContents ==
    [tag |-> "None", commas |-> 0, b64ok |-> FALSE, decoded |-> Payload(ErrorDf, ErrorDf)]

WellFormedContents == {Contents(1, TRUE, p) : p \in Payloads}

MalformedContents ==
    {Contents(n, TRUE, Payload(ErrorDf, ErrorDf)) : n \in {0, 2}}
        \cup {Contents(1, FALSE, Payload(ErrorDf, ErrorDf))}

\* ------------------------------------------------------------- ingestion
ParseResult(raised, df, message, parser) ==
    [raised |-> raised, df |-> df, message |-> message, parser |-> parser]

ParseRaised == ParseResult(TRUE, NoneDf, NoMessage, "none")

\* parse_decoded with the filename folded to lower case before the tests.
parse_decoded_casefold(decoded, filename) ==
    IF Contains(csv, Lower(filename))
    THEN IF decoded.read_csv.tag = "df"
         THEN ParseResult(FALSE, decoded.read_csv, MsgLoaded(filename), "read_csv")
         ELSE ParseResult(FALSE, NoneDf, MsgParseError, "read_csv")
    ELSE IF Contains(xls, Lower(filename))
    THEN IF decoded.read_excel.tag = "df"
         THEN ParseResult(FALSE, decoded.read_excel, MsgLoaded(filename), "read_excel")
         ELSE ParseResult(FALSE, NoneDf, MsgParseError, "read_excel")
    ELSE ParseResult(FALSE, NoneDf, MsgUnsupported(filename), "none")

\* The try block of parse_contents: the parser chosen by the filename, and what
\* a raising parser turns into.
parse_decoded(decoded, filename) ==
    IF Contains(csv, filename)
    THEN IF decoded.read_csv.tag = "df"
         THEN ParseResult(FALSE, decoded.read_csv, MsgLoaded(filename), "read_csv")
         ELSE ParseResult(FALSE, NoneDf, MsgParseError, "read_csv")
    ELSE IF Contains(xls, filename)
    THEN IF decoded.read_excel.tag = "df"
         THEN ParseResult(FALSE, decoded.read_excel, MsgLoaded(filename), "read_excel")
         ELSE ParseResult(FALSE, NoneDf, MsgParseError, "read_excel")
    ELSE ParseResult(FALSE, NoneDf, MsgUnsupported(filename), "none")

\* parse_contents(contents, filename): the split into two parts and the base64
\* decoding come before the try block, so their exceptions leave the function.
parse_contents(contents, filename) ==
    IF contents.commas # 1 THEN ParseRaised
    ELSE IF ~contents.b64ok THEN ParseRaised
    ELSE parse_decoded(contents.decoded, filename)

\* What pd.read_csv(url) does is the network's choice: a DataFrame, or an
\* exception with some text.
FetchErrors == {"HTTP Error 404: Not Found"}
Fetched(df, error) == [df |-> df, error |-> error]
StoreResult(raised, data, children) ==
    [raised |-> raised, data |-> data, children |-> children]

\* Lines 128-132 of update_data_store: what is returned for df, status_message.
store_return(df, status_message) ==
    IF df # NoneDf
    THEN StoreResult(FALSE, to_json(df), P(status_message, "green"))
    ELSE StoreResult(FALSE, NoneJson, P(status_message, "red"))

\* update_data_store leaving its outputs alone when the trigger has no source.
update_data_store_skips_empty(triggered_id, contents, filename, url, fetched) ==
    IF triggered_id = "upload-data" /\ contents # NoneContents
    THEN LET r == parse_contents(contents, filename)
         IN  IF r.raised
             THEN StoreResult(TRUE, NoneJson, NoChildren)
             ELSE store_return(r.df, r.message)
    ELSE IF triggered_id = "load-url-button" /\ Truthy(url)
    THEN IF fetched.df.tag = "df"
         THEN store_return(fetched.df, MsgLinkLoaded)
         ELSE store_return(NoneDf, MsgLinkError(fetched.error))
    ELSE StoreResult(TRUE, NoneJson, NoChildren)

\* update_data_store(contents, n_clicks, filename, url) with
\* callback_context.triggered_id = triggered_id; n_clicks is not read.
update_data_store(triggered_id, contents, filename, url, fetched) ==
    IF triggered_id = "upload-data" /\ contents # NoneContents
    THEN LET r == parse_contents(contents, filename)
         IN  IF r.raised
             THEN StoreResult(TRUE, NoneJson, NoChildren)
             ELSE store_return(r.df, r.message)
    ELSE IF triggered_id = "load-url-button" /\ Truthy(url)
    THEN IF fetched.df.tag = "df"
         THEN store_return(fetched.df, MsgLinkLoaded)
         ELSE store_return(NoneDf, MsgLinkError(fetched.error))
    ELSE store_return(NoneDf, NoMessage)

\* ----------------------------------------------------- schema projection
Option(i) == [label |-> i, value |-> i]

Projection(display, xopts, yopts, x, y) ==
    [style |-> display, xoptions |-> xopts, yoptions |-> yopts, xvalue |-> x, yvalue |-> y]

\* update_dropdowns_and_visibility with initial_y taken at index 0.
update_dropdowns_y_first(jsonified_dataframe) ==
    IF jsonified_dataframe = NoneJson
    THEN Projection("none", <<>>, <<>>, None, None)
    ELSE LET df == read_json(jsonified_dataframe)
             columns == [i \in 1..Len(df.columns) |-> Option(df.columns[i])]
             initial_x == IF Len(df.columns) > 0 THEN df.columns[1] ELSE None
             initial_y == IF Len(df.columns) > 1 THEN df.columns[1] ELSE None
         IN  Projection("block", columns, columns, initial_x, initial_y)

update_dropdowns_and_visibility(jsonified_dataframe) ==
    IF jsonified_dataframe = NoneJson
    THEN Projection("none", <<>>, <<>>, None, None)
    ELSE LET df == read_json(jsonified_dataframe)
             columns == [i \in 1..Len(df.columns) |-> Option(df.columns[i])]
             initial_x == IF Len(df.columns) > 0 THEN df.columns[1] ELSE None
             initial_y == IF Len(df.columns) > 1 THEN df.columns[2] ELSE None
         IN  Projection("block", columns, columns, initial_x, initial_y)

\* --------------------------------------------------------- chart dispatch
transition_duration == 500

ChartTypes == {"scatter", "line", "bar", "histogram", "pie"}

\* {} : the empty figure.
EmptyFigure == [kind |-> "{}", x |-> None, y |-> None, transition |-> 0]
NoFigure == [kind |-> None, x |-> None, y |-> None, transition |-> 0]

GraphResult(raised, figure, constructor) ==
    [raised |-> raised, figure |-> figure, constructor |-> constructor]

HasColumn(df, col) == \E i \in 1..Len(df.columns) : df.columns[i] = col

\* A plotly.express constructor: raises when handed a name that is no column
\* of df, else gives a figure; update_layout then sets the transition.
px(kind, df, x, y) ==
    IF HasColumn(df, x) /\ (y = None \/ HasColumn(df, y))
    THEN GraphResult(FALSE, [kind |-> kind, x |-> x, y |-> y,
                             transition |-> transition_duration], kind)
    ELSE GraphResult(TRUE, NoFigure, kind)

\* update_graph whose guard lets a histogram through without a y column.
update_graph_histogram_exempt(jsonified_dataframe, xaxis_col, yaxis_col, chart_type) ==
    IF \/ jsonified_dataframe = NoneJson
       \/ ~Truthy(xaxis_col)
       \/ (~Truthy(yaxis_col) /\ chart_type # "histogram")
    THEN GraphResult(FALSE, EmptyFigure, "none")
    ELSE LET df == read_json(jsonified_dataframe)
         IN  IF chart_type = "scatter" THEN px("scatter", df, xaxis_col, yaxis_col)
             ELSE IF chart_type = "line" THEN px("line", df, xaxis_col, yaxis_col)
             ELSE IF chart_type = "bar" THEN px("bar", df, xaxis_col, yaxis_col)
             ELSE IF chart_type = "histogram" THEN px("histogram", df, xaxis_col, None)
             ELSE IF chart_type = "pie" THEN px("pie", df, xaxis_col, yaxis_col)
             ELSE GraphResult(TRUE, NoFigure, "none")

update_graph(jsonified_dataframe, xaxis_col, yaxis_col, chart_type) ==
    IF jsonified_dataframe = NoneJson \/ ~Truthy(xaxis_col) \/ ~Truthy(yaxis_col)
    THEN GraphResult(FALSE, EmptyFigure, "none")
    ELSE LET df == read_json(jsonified_dataframe)
         IN  IF chart_type = "scatter" THEN px("scatter", df, xaxis_col, yaxis_col)
             ELSE IF chart_type = "line" THEN px("line", df, xaxis_col, yaxis_col)
             ELSE IF chart_type = "bar" THEN px("bar", df, xaxis_col, yaxis_col)
             ELSE IF chart_type = "histogram" THEN px("histogram", df, xaxis_col, None)
             ELSE IF chart_type = "pie" THEN px("pie", df, xaxis_col, yaxis_col)
             \* fig = {} and then fig.update_layout(...): a dict has no such
             \* method, so the callback raises AttributeError.
             ELSE GraphResult(TRUE, NoFigure, "none")

\* ================================================================ session
VARIABLES
    stored_data,        \* dcc.Store 'stored-data'.data
    status,             \* 'output-data-upload-status'.children
    container_style,    \* 'visualization-container'.style['display']
    xaxis_options,      \* 'xaxis-dropdown'.options
    yaxis_options,      \* 'yaxis-dropdown'.options
    xaxis_value,        \* 'xaxis-dropdown'.value
    yaxis_value,        \* 'yaxis-dropdown'.value
    chart_type,         \* 'chart-type-dropdown'.value
    figure,             \* 'main-graph'.figure
    pending,            \* callbacks whose inputs changed and that have not run
    fetching,           \* urls of the runs of callback 1 inside pd.read_csv(url)
    last,               \* the handler that ran last and how it ended
    call                \* a single call of one callback function, and its result

ui == <<stored_data, status, container_style, xaxis_options, yaxis_options,
        xaxis_value, yaxis_value, chart_type, figure>>
vars == <<stored_data, status, container_style, xaxis_options, yaxis_options,
          xaxis_value, yaxis_value, chart_type, figure, pending, fetching, last, call>>

\* step: which handler; raised: it ended in an exception; source: the trigger
\* of an ingestion carried a file or a link.
Ingestion(step, raised, source) == [step |-> step, raised |-> raised, source |-> source]
Step(step, raised) == Ingestion(step, raised, FALSE)

NoCall == [fn |-> "none"]

\* Filenames and URLs the user of the session offers.
SessionFileNames ==
    { <<"a", ".", "c", "s", "v">>,
      <<"A", ".", "C", "S", "V">> }

Urls == {None, EmptyStr, "http://host/data.csv"}

\* The layout: an empty store, no status, a hidden container, dropdowns with
\* no options and no value, chart type 'scatter'.  Callbacks 2 and 3 have no
\* prevent_initial_call, so both are due at page load.
Init ==
    /\ stored_data = NoneJson
    /\ status = NoChildren
    /\ container_style = "none"
    /\ xaxis_options = <<>>
    /\ yaxis_options = <<>>
    /\ xaxis_value = None
    /\ yaxis_value = None
    /\ chart_type = "scatter"
    /\ figure = NoFigure
    /\ pending = {"dropdowns", "graph"}
    /\ fetching = <<>>
    /\ last = Step("init", FALSE)
    /\ call = NoCall

\* A run of callback 1.  An exception leaves every output as it was; a return
\* writes the store and the status, which makes callbacks 2 and 3 due.
RunDataStore(step, r, source) ==
    /\ last' = Ingestion(step, r.raised, source)
    /\ IF r.raised
       THEN UNCHANGED <<ui, pending>>
       ELSE /\ stored_data' = r.data
            /\ status' = r.children
            /\ pending' = pending \cup {"dropdowns", "graph"}
            /\ UNCHANGED <<container_style, xaxis_options, yaxis_options,
                           xaxis_value, yaxis_value, chart_type, figure>>
    /\ UNCHANGED call

\* file-selected: 'upload-data'.contents changed.  The run does not wait on
\* anything, and is not held up by a run that waits on a link.
FileSelected(contents, filename) ==
    /\ RunDataStore("upload",
                    update_data_store("upload-data", contents, filename, None,
                                      Fetched(ErrorDf, EmptyStr)),
                    contents # NoneContents)
    /\ UNCHANGED fetching

\* url-submit: 'load-url-button'.n_clicks changed while 'input-url'.value = url.
\* With a url the run enters pd.read_csv(url) and waits there, with no
\* timeout; without one it returns at once.
UrlSubmit(url) ==
    IF Truthy(url)
    THEN /\ Len(fetching) < MaxInFlight
         /\ fetching' = Append(fetching, url)
         /\ last' = Step("fetch", FALSE)
         /\ UNCHANGED <<ui, pending, call>>
    ELSE /\ RunDataStore("url",
                         update_data_store("load-url-button", NoneContents, <<>>, url,
                                           Fetched(ErrorDf, EmptyStr)),
                         FALSE)
         /\ UNCHANGED fetching

RemoveAt(seq, i) == SubSeq(seq, 1, i - 1) \o SubSeq(seq, i + 1, Len(seq))

\* pd.read_csv(url) returns or raises in the i-th waiting run, and the run
\* goes on from line 123 to its return.
FetchReturns(i, fetched) ==
    /\ i \in 1..Len(fetching)
    /\ fetching' = RemoveAt(fetching, i)
    /\ RunDataStore("url",
                    update_data_store("load-url-button", NoneContents, <<>>,
                                      fetching[i], fetched),
                    TRUE)

\* Callback 2 keeping a selection the user has made.
DropdownCallback_keeps_selection ==
    /\ "dropdowns" \in pending
    /\ fetching = <<>>
    /\ LET r == update_dropdowns_and_visibility(stored_data)
       IN  /\ container_style' = r.style
           /\ xaxis_options' = r.xoptions
           /\ yaxis_options' = r.yoptions
           /\ xaxis_value' = IF xaxis_value = None THEN r.xvalue ELSE xaxis_value
           /\ yaxis_value' = IF yaxis_value = None THEN r.yvalue ELSE yaxis_value
    /\ pending' = (pending \ {"dropdowns"}) \cup {"graph"}
    /\ last' = Step("dropdowns", FALSE)
    /\ UNCHANGED <<stored_data, status, chart_type, figure, fetching, call>>

\* Callback 2 runs on the store's data, once no run of callback 1, whose
\* output it reads, is outstanding.
DropdownCallback ==
    /\ "dropdowns" \in pending
    /\ fetching = <<>>
    /\ LET r == update_dropdowns_and_visibility(stored_data)
       IN  /\ container_style' = r.style
           /\ xaxis_options' = r.xoptions
           /\ yaxis_options' = r.yoptions
           /\ xaxis_value' = r.xvalue
           /\ yaxis_value' = r.yvalue
    /\ pending' = (pending \ {"dropdowns"}) \cup {"graph"}
    /\ last' = Step("dropdowns", FALSE)
    /\ UNCHANGED <<stored_data, status, chart_type, figure, fetching, call>>

\* Callback 3 runs once callback 2, whose outputs it reads, is no longer due.
GraphCallback ==
    /\ "graph" \in pending
    /\ "dropdowns" \notin pending
    /\ fetching = <<>>
    /\ LET r == update_graph(stored_data, xaxis_value, yaxis_value, chart_type)
       IN  /\ figure' = IF r.raised THEN figure ELSE r.figure
           /\ last' = Step("graph", r.raised)
    /\ pending' = pending \ {"graph"}
    /\ UNCHANGED <<stored_data, status, container_style, xaxis_options, yaxis_options,
                   xaxis_value, yaxis_value, chart_type, fetching, call>>

OptionValues(options) == {options[i].value : i \in 1..Len(options)}

\* x-changed: the user picks one of the menu's options, or clears the menu.
\* The menus sit inside the container and can be used only while it shows.
XChanged(name) ==
    /\ container_style = "block"
    /\ name \in OptionValues(xaxis_options) \cup {None}
    /\ name # xaxis_value
    /\ xaxis_value' = name
    /\ pending' = pending \cup {"graph"}
    /\ last' = Step("select", FALSE)
    /\ UNCHANGED <<stored_data, status, container_style, xaxis_options, yaxis_options,
                   yaxis_value, chart_type, figure, fetching, call>>

YChanged(name) ==
    /\ container_style = "block"
    /\ name \in OptionValues(yaxis_options) \cup {None}
    /\ name # yaxis_value
    /\ yaxis_value' = name
    /\ pending' = pending \cup {"graph"}
    /\ last' = Step("select", FALSE)
    /\ UNCHANGED <<stored_data, status, container_style, xaxis_options, yaxis_options,
                   xaxis_value, chart_type, figure, fetching, call>>

\* type-changed: one of the five options, or the menu cleared.
TypeChanged(tag) ==
    /\ container_style = "block"
    /\ tag # chart_type
    /\ chart_type' = tag
    /\ pending' = pending \cup {"graph"}
    /\ last' = Step("select", FALSE)
    /\ UNCHANGED <<stored_data, status, container_style, xaxis_options, yaxis_options,
                   xaxis_value, yaxis_value, figure, fetching, call>>

\* The files and links of the session: tables of one and two columns, with
\* and without a column in common, and files no parser reads.
SessionDataFrames ==
    {DataFrame(<<"a">>, 0), DataFrame(<<"a", "b">>, 1), DataFrame(<<"b", "c">>, 1)}

SessionContents ==
    {NoneContents}
        \cup {Contents(1, TRUE, Payload(df, ErrorDf)) : df \in SessionDataFrames}
        \cup {Contents(1, TRUE, Payload(ErrorDf, ErrorDf))}
        \cup MalformedContents

SessionFetchResults ==
    {Fetched(df, EmptyStr) : df \in SessionDataFrames}
        \cup {Fetched(ErrorDf, e) : e \in FetchErrors}

Next ==
    \/ \E contents \in SessionContents, filename \in SessionFileNames :
           FileSelected(contents, filename)
    \/ \E url \in Urls : UrlSubmit(url)
    \/ \E i \in 1..MaxInFlight, fetched \in SessionFetchResults : FetchReturns(i, fetched)
    \/ DropdownCallback
    \/ GraphCallback
    \/ \E name \in ColNames \cup {None} : XChanged(name)
    \/ \E name \in ColNames \cup {None} : YChanged(name)
    \/ \E tag \in ChartTypes \cup {None} : TypeChanged(tag)

Spec == Init /\ [][Next]_vars

\* The session again with fewer files, links and chart types, for the
\* properties of its infinite behaviours.
LiveContents ==
    { NoneContents,
      Contents(1, TRUE, Payload(DataFrame(<<"a", "b">>, 1), ErrorDf)),
      Contents(1, TRUE, Payload(ErrorDf, ErrorDf)),
      Contents(0, TRUE, Payload(ErrorDf, ErrorDf)) }

LiveFetchResults ==
    {Fetched(DataFrame(<<"b", "c">>, 1), EmptyStr), Fetched(DataFrame(<<"a">>, 0), EmptyStr)}
        \cup {Fetched(ErrorDf, e) : e \in FetchErrors}

LiveNext ==
    \/ \E contents \in LiveContents, filename \in {<<"a", ".", "c", "s", "v">>} :
           FileSelected(contents, filename)
    \/ \E url \in Urls : UrlSubmit(url)
    \/ \E i \in 1..MaxInFlight, fetched \in LiveFetchResults : FetchReturns(i, fetched)
    \/ DropdownCallback
    \/ GraphCallback
    \/ \E name \in ColNames \cup {None} : XChanged(name)
    \/ \E name \in ColNames \cup {None} : YChanged(name)
    \/ \E tag \in {"scatter", "histogram", None} : TypeChanged(tag)

\* The framework runs every callback that is due: callback 2 as soon as the
\* store changes, callback 3 as soon as callback 2 is not due; a callback
\* that is due again and again is not passed over for ever.  Nothing makes
\* pd.read_csv(url) return: it has no timeout, so FetchReturns is not fair.
FairSpec ==
    Init /\ [][LiveNext]_vars /\ WF_vars(DropdownCallback) /\ SF_vars(GraphCallback)

\* The same session when, besides, every link answers: each waiting
\* pd.read_csv(url) returns or raises in the end, and a callback that is due
\* again and again between two fetches is run.  Its behaviours are behaviours
\* of FairSpec.
ReturningSpec ==
    /\ Init /\ [][LiveNext]_vars
    /\ SF_vars(DropdownCallback) /\ SF_vars(GraphCallback)
    /\ WF_vars(\E i \in 1..MaxInFlight, fetched \in LiveFetchResults :
                   FetchReturns(i, fetched))

\* ===================================================== one call of a function
\* Each callback function applied once to drawn arguments, outside any session.
Alphabet == {"c", "s", "v", "x", "l", "C"}

FileNames ==
    UNION {[1..k -> Alphabet] : k \in 0..MaxNameLen}
        \cup SessionFileNames
        \cup { <<"b", ".", "x", "l", "s", "x">>, <<"x", "l", "s", ".", "c", "s", "v">>,
               <<"R", ".", "X", "L", "S", "X">>,
               <<"n", ".", "t", "x", "t">> }

AllContents == WellFormedContents \cup MalformedContents

ParseCall(contents, filename) ==
    /\ call = NoCall
    /\ call' = [fn |-> "parse_contents", contents |-> contents, filename |-> filename,
                result |-> parse_contents(contents, filename)]
    /\ UNCHANGED <<ui, pending, fetching, last>>

StoreCall(triggered_id, contents, filename, url, fetched) ==
    /\ call = NoCall
    /\ call' = [fn |-> "update_data_store", triggered_id |-> triggered_id,
                contents |-> contents, filename |-> filename, url |-> url,
                parser |-> IF triggered_id = "upload-data" /\ contents # NoneContents
                           THEN parse_contents(contents, filename).parser
                           ELSE "none",
                result |-> update_data_store(triggered_id, contents, filename, url, fetched)]
    /\ UNCHANGED <<ui, pending, fetching, last>>

ProjectCall(jsonified_dataframe) ==
    /\ call = NoCall
    /\ call' = [fn |-> "update_dropdowns_and_visibility", data |-> jsonified_dataframe,
                result |-> update_dropdowns_and_visibility(jsonified_dataframe)]
    /\ UNCHANGED <<ui, pending, fetching, last>>

GraphCall(jsonified_dataframe, xaxis_col, yaxis_col, tag) ==
    /\ call = NoCall
    /\ call' = [fn |-> "update_graph", data |-> jsonified_dataframe, x |-> xaxis_col,
                y |-> yaxis_col, chart_type |-> tag,
                result |-> update_graph(jsonified_dataframe, xaxis_col, yaxis_col, tag)]
    /\ UNCHANGED <<ui, pending, fetching, last>>

ColumnArgs == ColNames \cup {None, EmptyStr}
TypeArgs == ChartTypes \cup {None, "area"}

\* One call per behaviour: the guard comes first so that no arguments are
\* drawn once a call has been made.
FunNext ==
    \/ /\ call = NoCall
       /\ \E contents \in AllContents, filename \in FileNames :
              ParseCall(contents, filename)
    \/ /\ call = NoCall
       /\ \E triggered_id \in {"upload-data", "load-url-button"},
             contents \in AllContents \cup {NoneContents},
             filename \in SessionFileNames
                 \cup {<<"b", ".", "x", "l", "s", "x">>, <<"n", ".", "t", "x", "t">>},
             url \in Urls, fetched \in SessionFetchResults :
              StoreCall(triggered_id, contents, filename, url, fetched)
    \/ /\ call = NoCall
       /\ \E j \in Snapshots \cup {NoneJson} : ProjectCall(j)
    \/ /\ call = NoCall
       /\ \E j \in Snapshots \cup {NoneJson}, x \in ColumnArgs, y \in ColumnArgs,
             tag \in TypeArgs : GraphCall(j, x, y, tag)

FunSpec == Init /\ [][FunNext]_vars

\* ================================================================= claims
\* The failure kinds of section 7, read off the status message.
Kind(children) ==
    CASE children.message.text = MsgUnsupported(<<>>).text -> "UnsupportedFormat"
      [] children.message.text = MsgParseError.text -> "ParseError"
      [] children.message.text = MsgLinkError(EmptyStr).text -> "FetchError"
      [] children.message.text = EmptyStr -> "NoSource"
      [] children.message.text = None -> "none"
      [] OTHER -> "Success"

Failures == {"UnsupportedFormat", "ParseError", "FetchError"}

AfterIngestion == last.step \in {"upload", "url"}

Columns(j) == {j.columns[i] : i \in 1..Len(j.columns)}

\* C1: right after an ingestion that ended in UnsupportedFormat, ParseError or
\* FetchError the store holds no snapshot and the status is red; the store
\* holds a snapshot right after an ingestion only if that ingestion succeeded.
C1_FailureClearsSnapshot ==
    AfterIngestion =>
        /\ (~last.raised /\ Kind(status) \in Failures) =>
               (stored_data = NoneJson /\ status.color = "red")
        /\ stored_data # NoneJson => (~last.raised /\ Kind(status) = "Success")

\* C2: once the callbacks an event triggers have re-run the projection, each
\* axis selection is None or a column of the stored snapshot.
C2_SelectionInColumns ==
    "dropdowns" \notin pending =>
        /\ xaxis_value \in Columns(stored_data) \cup {None}
        /\ yaxis_value \in Columns(stored_data) \cup {None}

\* A snapshot is stored and projected, a column is selected, and the figure
\* still drawn is of a column the new snapshot does not have.
C2_Witness ==
    /\ "dropdowns" \notin pending
    /\ stored_data # NoneJson
    /\ xaxis_value # None
    /\ figure.kind \in ChartTypes
    /\ figure.x \notin Columns(stored_data)

\* C3, as claimed: a filename with "csv" or "xls" in any letter case selects
\* the CSV or the spreadsheet parser and is never rejected as UnsupportedFormat.
C3_CaseInsensitiveMatch ==
    call.fn = "parse_contents" =>
        LET name == Lower(call.filename)
        IN  /\ (Contains(csv, name) \/ Contains(xls, name)) =>
                   call.result.message # MsgUnsupported(call.filename)
            /\ (~call.result.raised /\ Contains(csv, name)) =>
                   call.result.parser = "read_csv"
            /\ (~call.result.raised /\ ~Contains(csv, name) /\ Contains(xls, name)) =>
                   call.result.parser = "read_excel"

\* C3, amended: the match is case-sensitive.  read_csv is invoked only for a
\* filename holding lower-case "csv", read_excel only for one holding lower-case
\* "xls" and not "csv"; a filename holding either is never rejected as
\* UnsupportedFormat; any other filename, DATA.CSV included, reaches no parser
\* and is rejected as UnsupportedFormat whenever parse_contents returns.
C3_CaseSensitiveMatch ==
    call.fn = "parse_contents" =>
        LET name == call.filename
            r == call.result
        IN  /\ (Contains(csv, name) \/ Contains(xls, name)) =>
                   r.message # MsgUnsupported(name)
            /\ r.parser = "read_csv" => Contains(csv, name)
            /\ r.parser = "read_excel" => (Contains(xls, name) /\ ~Contains(csv, name))
            /\ (~r.raised /\ Contains(csv, name)) => r.parser = "read_csv"
            /\ (~r.raised /\ ~Contains(csv, name) /\ Contains(xls, name)) =>
                   r.parser = "read_excel"
            /\ (~Contains(csv, name) /\ ~Contains(xls, name)) => r.parser = "none"
            /\ (~r.raised /\ ~Contains(csv, name) /\ ~Contains(xls, name)) =>
                   (r.df = NoneDf /\ r.message = MsgUnsupported(name))

\* An upload named with upper-case CSV, whose bytes are CSV text, is rejected.
C3_Witness ==
    /\ call.fn = "parse_contents"
    /\ Contains(csv, Lower(call.filename))
    /\ ~Contains(csv, call.filename)
    /\ call.contents.decoded.read_csv.tag = "df"
    /\ call.result = ParseResult(FALSE, NoneDf, MsgUnsupported(call.filename), "none")

\* C4: an upload whose filename holds neither "csv" nor "xls" fails with
\* UnsupportedFormat: no dataset, a message naming the filename, no parser
\* invoked, and None returned for the store.
C4_UnsupportedFormat ==
    (/\ call.fn = "update_data_store"
     /\ call.triggered_id = "upload-data"
     /\ call.contents # NoneContents
     /\ ~Contains(csv, call.filename)
     /\ ~Contains(xls, call.filename)) =>
        /\ ~call.result.raised
        /\ call.result.data = NoneJson
        /\ call.result.children = P(MsgUnsupported(call.filename), "red")
        /\ call.parser = "none"

\* C5: with a snapshot, both columns chosen and a chart type outside the five,
\* chart dispatch returns the empty figure and does not raise.
C5_UnrecognizedTypeIsEmpty ==
    (/\ last.step = "graph"
     /\ stored_data # NoneJson
     /\ Truthy(xaxis_value)
     /\ Truthy(yaxis_value)
     /\ chart_type \notin ChartTypes) =>
        (~last.raised /\ figure = EmptyFigure)

\* C6: the ingestion callback never raises: every file-selected and url-submit
\* event ends with a (snapshot, status) pair.
C6_IngestionNeverRaises == AfterIngestion => ~last.raised

\* C7: with no snapshot, or no x column, or no y column, chart dispatch
\* returns the empty figure for every chart type, before any constructor.
C7_GuardBeforeDispatch ==
    (/\ call.fn = "update_graph"
     /\ (call.data = NoneJson \/ ~Truthy(call.x) \/ ~Truthy(call.y))) =>
        call.result = GraphResult(FALSE, EmptyFigure, "none")

\* A histogram asked of a snapshot with its x column chosen and no y column.
C7_Witness ==
    /\ call.fn = "update_graph"
    /\ call.chart_type = "histogram"
    /\ call.data # NoneJson
    /\ call.x \in Columns(call.data)
    /\ call.y = None
    /\ call.result.figure = EmptyFigure

\* C8: projection of None is hidden, with no options and no defaults; of a
\* snapshot it is visible, both menus list the columns in stored order, the x
\* default is the first column (None if none) and the y default the second
\* (None if fewer than two).
C8_Projection ==
    call.fn = "update_dropdowns_and_visibility" =>
        LET r == call.result
            cols == call.data.columns
        IN  IF call.data = NoneJson
            THEN r = Projection("none", <<>>, <<>>, None, None)
            ELSE /\ r.style = "block"
                 /\ Len(r.xoptions) = Len(cols)
                 /\ \A i \in 1..Len(cols) :
                        r.xoptions[i].value = cols[i] /\ r.xoptions[i].label = cols[i]
                 /\ r.yoptions = r.xoptions
                 /\ r.xvalue = (IF cols = <<>> THEN None ELSE Head(cols))
                 /\ r.yvalue = (IF Len(cols) < 2 THEN None ELSE Head(Tail(cols)))

\* The projection of a snapshot of two columns or more.
C8_Witness ==
    /\ call.fn = "update_dropdowns_and_visibility"
    /\ Len(call.data.columns) >= 2
    /\ call.result.yvalue = call.data.columns[2]

\* The state the user interface converges to for the stored snapshot.
Converged ==
    IF stored_data = NoneJson
    THEN /\ pending = {}
         /\ container_style = "none"
         /\ xaxis_options = <<>>
         /\ yaxis_options = <<>>
         /\ xaxis_value = None
         /\ yaxis_value = None
         /\ figure = EmptyFigure
    ELSE /\ "dropdowns" \notin pending
         /\ container_style = "block"
         /\ OptionValues(xaxis_options) = Columns(stored_data)
         /\ xaxis_value = (IF stored_data.columns = <<>> THEN None
                           ELSE stored_data.columns[1])
         /\ yaxis_value = (IF Len(stored_data.columns) < 2 THEN None
                           ELSE stored_data.columns[2])

\* C9: every ingestion is followed by the state of the stored snapshot: after
\* a success the container shows and the selection is the first and second
\* column, whatever was selected before; after a failure the container is
\* hidden, the menus and selections are empty and the figure is the empty one.
C9_Convergence == AfterIngestion ~> Converged

\* What holds of the callbacks 2 and 3 themselves.  Under FairSpec: every
\* ingestion that returns is followed by the converged state of its snapshot
\* or a later one, unless a run of callback 1 is left waiting on a link.
ReturnedIngestionConverges ==
    (AfterIngestion /\ ~last.raised) ~> (Converged \/ fetching # <<>>)

\* Under ReturningSpec: every ingestion that returns is followed by the
\* converged state of its snapshot or a later one.
ReturnedIngestionConvergesIfLinksAnswer == (AfterIngestion /\ ~last.raised) ~> Converged

\* C10: a trigger with no source (an empty or None URL, or None contents)
\* returns, clears the store and sets a red status with an empty message.
C10_NoSourceIsFailure ==
    (AfterIngestion /\ ~last.source) =>
        /\ ~last.raised
        /\ stored_data = NoneJson
        /\ status = P(NoMessage, "red")

\* Such a trigger while the container still shows a loaded dataset.
C10_Witness ==
    /\ AfterIngestion
    /\ ~last.source
    /\ container_style = "block"
    /\ xaxis_value # None
    /\ stored_data = NoneJson

====
